---------------------------- MODULE Spec2Model ----------------------------
(***************************************************************************)
(* State-machine model of the Easee charger integration:                   *)
(*   custom_components/easee/entity.py            (ChargerEntity)          *)
(*   custom_components/easee/device_condition.py  (async_get_conditions)   *)
(*                                                                         *)
(* Four specifications share the variables:                                *)
(*   SpecKey     key-path dispatch on the data object (get/set)            *)
(*   SpecUpdate  ChargerEntity.async_update of one configured entity       *)
(*   SpecRemove  ChargerEntity.async_will_remove_from_hass                 *)
(*   SpecCond    async_get_conditions over the entity registry             *)
(***************************************************************************)
EXTENDS Integers, Sequences, FiniteSets, TLC

VARIABLES
    data,            \* self.data: bucket name -> [isNone, items]
    cfg,             \* constructor arguments of the entity under update
    _state,          \* self._state
    ret,             \* the last call on the entity and its outcome
    lists,           \* controller.<kind>_entities, one list per kind
    ent_reg,         \* entity registry: sequence of entries
    dev_reg,         \* device registry: set of device ids
    sites_to_remove, \* hass.data[DOMAIN]["sites_to_remove"]
    removed,         \* log of the async_will_remove_from_hass calls
    reg_calls,       \* registry removal calls issued so far, in order
    conditions       \* outcome of the last async_get_conditions call

vars == <<data, cfg, _state, ret, lists, ent_reg, dev_reg, sites_to_remove,
          removed, reg_calls, conditions>>

---------------------------------------------------------------------------
(* Bounds of the model *)

\* Largest number of stored items in the data object, over all buckets.
MaxItems == 1

\* Largest number of buckets of the data object that are None at a time.
MaxNone == 1

\* Largest number of entries in the controller's entity lists, over all lists.
MaxEntries == 3

---------------------------------------------------------------------------
(* Python values.  Every value is a record [t, v]: t is the Python type    *)
(* (or the text of a formatted string), v the payload.                     *)

None == [t |-> "NoneType", v |-> 0]
EmptyStr == [t |-> "str", v |-> 0]
Missing == [t |-> "<absent>", v |-> 0]
IntVal(n) == [t |-> "int", v |-> n]
BoolVal(b) == [t |-> "bool", v |-> IF b THEN 1 ELSE 0]
\* A datetime as stored by the library (v = 0) and after dt_util.as_local
\* (v = 1, carrying the local time zone).
Datetime == [t |-> "datetime", v |-> 0]

isinstance_datetime(value) == value.t = "datetime"

as_local(value) == [t |-> "datetime", v |-> 1]

\* Values the library stores in a bucket.
Values == {IntVal(1), Datetime}

\* Second parts of the keys.
Names == {"a"}

\* The attributes of the data object that the key paths name.
KnownPrefixes ==
    {"config", "state", "circuit", "site", "cost_day", "cost_month",
     "cost_year", "schedule", "weekly_schedule"}

\* A first part naming no attribute.
UnknownPrefixes == {"other"}

AllPrefixes == KnownPrefixes \cup UnknownPrefixes

Keys == AllPrefixes \X Names

EmptyBucket == [isNone |-> FALSE, items |-> [n \in Names |-> Missing]]
NoneBucket == [isNone |-> TRUE, items |-> [n \in Names |-> Missing]]

NumItems(d) ==
    Cardinality({pn \in KnownPrefixes \X Names : d[pn[1]].items[pn[2]] # Missing})

NumNone(d) == Cardinality({b \in KnownPrefixes : d[b].isNone})

Ok(value) == [val |-> value, exc |-> "none"]
Raise(e) == [val |-> None, exc |-> e]

---------------------------------------------------------------------------
(* Key-path dispatch *)

\* bucket[second]
Subscript(bucket, second) ==
    IF bucket.isNone THEN Raise("TypeError")
    ELSE IF bucket.items[second] = Missing THEN Raise("KeyError")
    ELSE Ok(bucket.items[second])

\* bucket[second] = value
StoreItem(bucket, second, value) ==
    IF bucket.isNone THEN [bucket |-> bucket, exc |-> "TypeError"]
    ELSE [bucket |-> [bucket EXCEPT !.items[second] = value], exc |-> "none"]

\* GetDispatch with the cost_month branch reading cost_day.
GetDispatch_CostMonthReadsCostDay(d, first, second) ==
    IF first = "config" THEN Subscript(d["config"], second)
    ELSE IF first = "state" THEN Subscript(d["state"], second)
    ELSE IF first = "circuit" THEN Subscript(d["circuit"], second)
    ELSE IF first = "site" THEN Subscript(d["site"], second)
    ELSE IF first = "cost_day" THEN Subscript(d["cost_day"], second)
    ELSE IF first = "cost_month" THEN Subscript(d["cost_day"], second)
    ELSE IF first = "cost_year" THEN Subscript(d["cost_year"], second)
    ELSE IF first = "schedule" THEN
        IF ~d["schedule"].isNone THEN Subscript(d["schedule"], second)
        ELSE Ok(None)
    ELSE IF first = "weekly_schedule" THEN
        IF ~d["weekly_schedule"].isNone
        THEN Subscript(d["weekly_schedule"], second)
        ELSE Ok(None)
    ELSE Raise("IndexError")

\* The if/elif chain of get_value_from_key.
GetDispatch(d, first, second) ==
    IF first = "config" THEN Subscript(d["config"], second)
    ELSE IF first = "state" THEN Subscript(d["state"], second)
    ELSE IF first = "circuit" THEN Subscript(d["circuit"], second)
    ELSE IF first = "site" THEN Subscript(d["site"], second)
    ELSE IF first = "cost_day" THEN Subscript(d["cost_day"], second)
    ELSE IF first = "cost_month" THEN Subscript(d["cost_month"], second)
    ELSE IF first = "cost_year" THEN Subscript(d["cost_year"], second)
    ELSE IF first = "schedule" THEN
        IF ~d["schedule"].isNone THEN Subscript(d["schedule"], second)
        ELSE Ok(None)
    ELSE IF first = "weekly_schedule" THEN
        IF ~d["weekly_schedule"].isNone
        THEN Subscript(d["weekly_schedule"], second)
        ELSE Ok(None)
    ELSE Raise("IndexError")

\* get_value_from_key without its except KeyError clause.
get_value_from_key_NoKeyErrorHandler(d, key) ==
    LET r == GetDispatch(d, key[1], key[2])
    IN  IF r.exc # "none" THEN r
        ELSE IF isinstance_datetime(r.val) THEN Ok(as_local(r.val))
        ELSE r

get_value_from_key(d, key) ==
    LET r == GetDispatch(d, key[1], key[2])
    IN  IF r.exc = "KeyError" THEN Ok(EmptyStr)
        ELSE IF r.exc # "none" THEN r
        ELSE IF isinstance_datetime(r.val) THEN Ok(as_local(r.val))
        ELSE r

\* SetDispatch whose final else returns instead of raising.
SetDispatch_ElseReturns(d, first, second, value) ==
    LET guarded(b) ==
            IF ~d[b].isNone
            THEN [data |-> [d EXCEPT ![b] = StoreItem(d[b], second, value).bucket],
                  exc |-> "none"]
            ELSE [data |-> d, exc |-> "none"]
        direct(b) ==
            LET s == StoreItem(d[b], second, value)
            IN  [data |-> [d EXCEPT ![b] = s.bucket], exc |-> s.exc]
    IN  IF first = "config" THEN guarded("config")
        ELSE IF first = "state" THEN guarded("state")
        ELSE IF first = "circuit" THEN direct("circuit")
        ELSE IF first = "site" THEN direct("site")
        ELSE IF first = "schedule" THEN guarded("schedule")
        ELSE IF first = "weekly_schedule" THEN guarded("weekly_schedule")
        ELSE [data |-> d, exc |-> "none"]

\* SetDispatch with the weekly_schedule branch storing into schedule.
SetDispatch_WeeklyStoresInSchedule(d, first, second, value) ==
    LET guarded(b) ==
            IF ~d[b].isNone
            THEN [data |-> [d EXCEPT ![b] = StoreItem(d[b], second, value).bucket],
                  exc |-> "none"]
            ELSE [data |-> d, exc |-> "none"]
        direct(b) ==
            LET s == StoreItem(d[b], second, value)
            IN  [data |-> [d EXCEPT ![b] = s.bucket], exc |-> s.exc]
    IN  IF first = "config" THEN guarded("config")
        ELSE IF first = "state" THEN guarded("state")
        ELSE IF first = "circuit" THEN direct("circuit")
        ELSE IF first = "site" THEN direct("site")
        ELSE IF first = "schedule" THEN guarded("schedule")
        ELSE IF first = "weekly_schedule" THEN
            IF ~d["weekly_schedule"].isNone THEN guarded("schedule")
            ELSE [data |-> d, exc |-> "none"]
        ELSE [data |-> d, exc |-> "IndexError"]

\* The if/elif chain of set_value_from_key: the data object after the call
\* and the exception raised.
SetDispatch(d, first, second, value) ==
    LET guarded(b) ==
            IF ~d[b].isNone
            THEN [data |-> [d EXCEPT ![b] = StoreItem(d[b], second, value).bucket],
                  exc |-> "none"]
            ELSE [data |-> d, exc |-> "none"]
        direct(b) ==
            LET s == StoreItem(d[b], second, value)
            IN  [data |-> [d EXCEPT ![b] = s.bucket], exc |-> s.exc]
    IN  IF first = "config" THEN guarded("config")
        ELSE IF first = "state" THEN guarded("state")
        ELSE IF first = "circuit" THEN direct("circuit")
        ELSE IF first = "site" THEN direct("site")
        ELSE IF first = "schedule" THEN guarded("schedule")
        ELSE IF first = "weekly_schedule" THEN guarded("weekly_schedule")
        ELSE [data |-> d, exc |-> "IndexError"]

set_value_from_key(d, key, value) ==
    LET r == SetDispatch(d, key[1], key[2], value)
    IN  [data |-> r.data,
         val |-> IF r.exc = "none" THEN value ELSE None,
         exc |-> r.exc]

---------------------------------------------------------------------------
(* Conversions *)

\* EASEE_STATUS of const.py: status code -> status string, in the order of
\* the table.
StatusCodes == <<1, 2, 3>>

EASEE_STATUS ==
    [k \in {1, 2, 3} |->
        IF k = 1 THEN "disconnected"
        ELSE IF k = 2 THEN "awaiting_start"
        ELSE "charging"]

\* Units for which round_to_dec scales by 1000.
ScaledUnits == {"W", "Wh"}

\* value * 1000
Times1000(value) ==
    IF value.t = "int" \/ value.t = "bool" THEN Ok(IntVal(value.v * 1000))
    ELSE IF value.t = "str" THEN Ok(value)
    ELSE Raise("TypeError")

\* round(value, decimals)
round(value, decimals) ==
    IF value.t = "int" \/ value.t = "bool" THEN Ok(IntVal(value.v))
    ELSE Raise("TypeError")

round_to_dec(value, decimals, unit) ==
    LET scaled == IF unit \in ScaledUnits THEN Times1000(value) ELSE Ok(value)
        dec == IF unit \in ScaledUnits THEN "None" ELSE decimals
    IN  IF scaled.exc # "none" THEN scaled
        ELSE LET r == round(scaled.val, dec)
             IN  IF r.exc = "TypeError" THEN Ok(scaled.val) ELSE r

round_1_dec(value, unit) == round_to_dec(value, "1", unit)

\* EASEE_STATUS.get(value, f"unknown {value}"); True and 1 are the same
\* dictionary key.
map_charger_status(value, unit) ==
    IF (value.t = "int" \/ value.t = "bool") /\ value.v \in DOMAIN EASEE_STATUS
    THEN Ok([t |-> EASEE_STATUS[value.v], v |-> 0])
    ELSE Ok([t |-> "unknown " \o value.t, v |-> value.v])

ConvertNames == {"None", "round_1_dec", "map_charger_status"}

\* self._convert_units_func(self._state, self._units)
convert_units_func(name, value, unit) ==
    IF name = "round_1_dec" THEN round_1_dec(value, unit)
    ELSE map_charger_status(value, unit)

\* The state functions handed to the constructor:
\*   "item_plus_one"  lambda bucket: bucket["a"] + 1
\*   "get_is_set"     lambda bucket: bucket.get("a") is not None
StateFuncNames == {"None", "item_plus_one", "get_is_set"}

state_func(name, bucket) ==
    IF name = "item_plus_one" THEN
        LET r == Subscript(bucket, "a")
        IN  IF r.exc # "none" THEN r
            ELSE IF r.val.t = "int" THEN Ok(IntVal(r.val.v + 1))
            ELSE Raise("TypeError")
    ELSE
        IF bucket.isNone THEN Raise("AttributeError")
        ELSE Ok(BoolVal(bucket.items["a"] # Missing))

---------------------------------------------------------------------------
(* ChargerEntity.async_update *)

Spelling(word) ==
    CASE word = "config" -> <<"c", "o", "n", "f", "i", "g">>
      [] word = "state" -> <<"s", "t", "a", "t", "e">>
      [] word = "circuit" -> <<"c", "i", "r", "c", "u", "i", "t">>
      [] word = "site" -> <<"s", "i", "t", "e">>
      [] word = "cost_day" -> <<"c", "o", "s", "t", "_", "d", "a", "y">>
      [] word = "cost_month" ->
            <<"c", "o", "s", "t", "_", "m", "o", "n", "t", "h">>
      [] word = "cost_year" -> <<"c", "o", "s", "t", "_", "y", "e", "a", "r">>
      [] word = "schedule" -> <<"s", "c", "h", "e", "d", "u", "l", "e">>
      [] word = "weekly_schedule" ->
            <<"w", "e", "e", "k", "l", "y", "_",
              "s", "c", "h", "e", "d", "u", "l", "e">>
      [] word = "other" -> <<"o", "t", "h", "e", "r">>
      [] word = "a" -> <<"a">>

\* The text of a two-part key.
KeyText(key) == Spelling(key[1]) \o <<".">> \o Spelling(key[2])

\* word in text, in place of text.startswith(word).
startswith_Contains(text, word) ==
    \E i \in 1 .. (Len(text) - Len(word) + 1) :
        SubSeq(text, i, i + Len(word) - 1) = word

\* text.startswith(word)
startswith(text, word) ==
    /\ Len(word) <= Len(text)
    /\ SubSeq(text, 1, Len(word)) = word

\* The buckets async_update tests the key against, in the order of its ifs.
StateFuncPrefixes == <<"state", "config", "schedule", "weekly_schedule">>

\* The four ifs under "if self._state_func is not None", from the i-th on:
\* acc is [state, exc, calls], calls the buckets state_func was called with.
RECURSIVE ApplyStateFunc(_, _, _, _)
ApplyStateFunc(c, d, i, acc) ==
    IF i > Len(StateFuncPrefixes) \/ acc.exc # "none" THEN acc
    ELSE LET q == StateFuncPrefixes[i]
         IN  IF startswith(KeyText(c.state_key), Spelling(q))
             THEN LET r == state_func(c.state_func, d[q])
                  IN  ApplyStateFunc(c, d, i + 1,
                        [state |-> IF r.exc = "none" THEN r.val ELSE acc.state,
                         exc |-> r.exc,
                         calls |-> Append(acc.calls, q)])
             ELSE ApplyStateFunc(c, d, i + 1, acc)

\* async_update without its first statement.
ResetState_Keep(self_state) == self_state

\* self._state = None, the first statement of async_update.
ResetState(self_state) == None

SwallowedErrors == {"AttributeError", "KeyError", "TypeError"}

\* async_update on an entity whose _state is self_state: the _state left,
\* the exception raised, the exception swallowed and the state_func calls.
async_update(self_state, c, d) ==
    LET s0 == ResetState(self_state)
        outcome(s, e, calls) ==
            [state |-> s,
             exc |-> IF e \in SwallowedErrors THEN "none" ELSE e,
             swallowed |-> IF e \in SwallowedErrors THEN e ELSE "none",
             calls |-> calls]
        g == get_value_from_key(d, c.state_key)
    IN  IF g.exc # "none" THEN outcome(s0, g.exc, <<>>)
        ELSE
        LET s1 == IF g.val = EmptyStr THEN None ELSE g.val
            f == IF c.state_func # "None"
                 THEN ApplyStateFunc(c, d, 1,
                        [state |-> s1, exc |-> "none", calls |-> <<>>])
                 ELSE [state |-> s1, exc |-> "none", calls |-> <<>>]
        IN  IF f.exc # "none" THEN outcome(f.state, f.exc, f.calls)
            ELSE IF c.convert_units_func = "None"
            THEN outcome(f.state, "none", f.calls)
            ELSE LET u == convert_units_func(c.convert_units_func, f.state, c.units)
                 IN  IF u.exc # "none" THEN outcome(f.state, u.exc, f.calls)
                     ELSE outcome(u.val, "none", f.calls)

\* The constructor arguments the model draws an entity from.
EntityConfigs ==
    {c \in [state_key : Keys, state_func : StateFuncNames,
            convert_units_func : ConvertNames, units : {"None", "W"}] :
        c.units = "W" => c.convert_units_func = "round_1_dec"}

NoConfig ==
    [state_key |-> <<"other", "a">>, state_func |-> "None",
     convert_units_func |-> "None", units |-> "None"]


---------------------------------------------------------------------------
(* device_condition.async_get_conditions *)

\* er.async_entries_for_device(registry, device_id)
async_entries_for_device(registry, device_id) ==
    SelectSeq(registry, LAMBDA entry : entry.device_id = device_id)

\* The integration domain (const.DOMAIN).
IntegrationDomain == "easee"

CONDITION_TYPES == [i \in DOMAIN StatusCodes |-> EASEE_STATUS[StatusCodes[i]]]

TranslationKeys == {"easee_status", "easee_online", "None"}

\* The loop without the test of the translation key.
RECURSIVE ConditionsLoop_NoFilter(_, _, _, _)
ConditionsLoop_NoFilter(entries, device_id, i, acc) ==
    IF i > Len(entries) THEN acc
    ELSE LET entry == entries[i]
             base_condition(cond) ==
                [condition |-> "device", device_id |-> device_id,
                 domain |-> IntegrationDomain, entity_id |-> entry.entity_id,
                 type |-> cond]
         IN  ConditionsLoop_NoFilter(entries, device_id, i + 1,
                acc \o [j \in DOMAIN CONDITION_TYPES |->
                            base_condition(CONDITION_TYPES[j])])

\* The loop over er.async_entries_for_device(registry, device_id), from
\* the i-th entry on; acc is the list built so far.
RECURSIVE ConditionsLoop(_, _, _, _)
ConditionsLoop(entries, device_id, i, acc) ==
    IF i > Len(entries) THEN acc
    ELSE LET entry == entries[i]
             base_condition(cond) ==
                [condition |-> "device", device_id |-> device_id,
                 domain |-> IntegrationDomain, entity_id |-> entry.entity_id,
                 type |-> cond]
         IN  IF entry.translation_key = "easee_status"
             THEN ConditionsLoop(entries, device_id, i + 1,
                    acc \o [j \in DOMAIN CONDITION_TYPES |->
                                base_condition(CONDITION_TYPES[j])])
             ELSE ConditionsLoop(entries, device_id, i + 1, acc)

async_get_conditions(registry, device_id) ==
    ConditionsLoop(async_entries_for_device(registry, device_id),
                   device_id, 1, <<>>)

NoConditions == [called |-> FALSE, device_id |-> 0, result |-> <<>>]

---------------------------------------------------------------------------
(* The entity and its data object *)

NoCall ==
    [op |-> "none", key |-> <<"other", "a">>, val |-> None,
     exc |-> "none", swallowed |-> "none", calls |-> <<>>, prev |-> None]

\* The data object with every bucket an empty mapping, but the buckets of
\* noneBuckets, which are None.
InitialData(noneBuckets) ==
    [b \in KnownPrefixes |-> IF b \in noneBuckets THEN NoneBucket ELSE EmptyBucket]

OtherInit ==
    /\ lists = [l \in {} |-> <<>>]
    /\ ent_reg = <<>>
    /\ dev_reg = {}
    /\ sites_to_remove = {}
    /\ removed = <<>>
    /\ reg_calls = <<>>
    /\ conditions = NoConditions

\* The library refreshes one item of a bucket (or drops it).
DataChange(b, n, v) ==
    /\ ~data[b].isNone
    /\ data[b].items[n] # v
    /\ data' = [data EXCEPT ![b].items[n] = v]
    /\ NumItems(data') <= MaxItems
    /\ ret' = NoCall
    /\ UNCHANGED <<cfg, _state>>
    /\ UNCHANGED <<lists, ent_reg, dev_reg, sites_to_remove, removed,
                   reg_calls, conditions>>

\* The library replaces a bucket: by None, or by a fresh mapping.
BucketReplaced(b, none) ==
    /\ data[b].isNone # none
    /\ data' = [data EXCEPT ![b] = IF none THEN NoneBucket ELSE EmptyBucket]
    /\ NumNone(data') <= MaxNone
    /\ ret' = NoCall
    /\ UNCHANGED <<cfg, _state>>
    /\ UNCHANGED <<lists, ent_reg, dev_reg, sites_to_remove, removed,
                   reg_calls, conditions>>

\* A call of get_value_from_key(key).
Get(key) ==
    /\ LET r == get_value_from_key(data, key)
       IN  ret' = [NoCall EXCEPT !.op = "get", !.key = key,
                                 !.val = r.val, !.exc = r.exc]
    /\ UNCHANGED <<data, cfg, _state>>
    /\ UNCHANGED <<lists, ent_reg, dev_reg, sites_to_remove, removed,
                   reg_calls, conditions>>

\* A call of set_value_from_key(key, value).
Set(key, value) ==
    /\ LET r == set_value_from_key(data, key, value)
       IN  /\ NumItems(r.data) <= MaxItems
           /\ data' = r.data
           /\ ret' = [NoCall EXCEPT !.op = "set", !.key = key,
                                    !.val = r.val, !.exc = r.exc]
    /\ UNCHANGED <<cfg, _state>>
    /\ UNCHANGED <<lists, ent_reg, dev_reg, sites_to_remove, removed,
                   reg_calls, conditions>>

\* A call of async_update().
Update ==
    /\ LET u == async_update(_state, cfg, data)
       IN  /\ _state' = u.state
           /\ ret' = [NoCall EXCEPT !.op = "update", !.key = cfg.state_key,
                                    !.exc = u.exc, !.swallowed = u.swallowed,
                                    !.calls = u.calls, !.prev = _state]
    /\ UNCHANGED <<data, cfg>>
    /\ UNCHANGED <<lists, ent_reg, dev_reg, sites_to_remove, removed,
                   reg_calls, conditions>>

InitKey ==
    /\ data = InitialData({})
    /\ cfg = NoConfig
    /\ _state = None
    /\ ret = NoCall
    /\ OtherInit

NextKey ==
    \/ \E b \in KnownPrefixes, n \in Names, v \in Values \cup {Missing} :
            DataChange(b, n, v)
    \/ \E b \in KnownPrefixes, none \in BOOLEAN : BucketReplaced(b, none)
    \/ \E key \in Keys : Get(key)
    \/ \E key \in Keys, v \in Values : Set(key, v)

SpecKey == InitKey /\ [][NextKey]_vars

\* The entity as constructed (self._state = None).
InitUpdate ==
    /\ cfg \in EntityConfigs
    /\ data = InitialData({})
    /\ _state = None
    /\ ret = NoCall
    /\ OtherInit

NextUpdate ==
    \/ \E b \in KnownPrefixes, n \in Names, v \in Values \cup {Missing} :
            DataChange(b, n, v)
    \/ \E b \in {cfg.state_key[1]} \cap KnownPrefixes, none \in BOOLEAN :
            BucketReplaced(b, none)
    \/ \E v \in Values : Set(cfg.state_key, v)
    \/ Update

SpecUpdate == InitUpdate /\ [][NextUpdate]_vars


---------------------------------------------------------------------------
(* ChargerEntity.async_will_remove_from_hass *)

Entities == {1, 2, 3}
Devices == {1, 2}

\* The device an entity is registered under, and the site of its data.
DeviceOf(e) == IF e = 3 THEN 2 ELSE 1
SiteName(e) == IF DeviceOf(e) = 1 THEN "home" ELSE "cabin"
Sites == {SiteName(e) : e \in Entities}

\* The controller's lists, in the order the handler visits them.
ListNames ==
    {"sensor_entities", "binary_sensor_entities", "switch_entities",
     "button_entities", "light_entities", "equalizer_sensor_entities",
     "equalizer_binary_sensor_entities", "equalizer_switch_entities"}

Range(seq) == {seq[i] : i \in DOMAIN seq}

\* list.remove(x): drops the first occurrence.
list_remove(seq, x) ==
    LET i == CHOOSE j \in DOMAIN seq :
                 seq[j] = x /\ \A k \in 1 .. (j - 1) : seq[k] # x
    IN  SubSeq(seq, 1, i - 1) \o SubSeq(seq, i + 1, Len(seq))

\* The handler without the statement for equalizer_switch_entities.
RemoveFromLists_SkipsLast(ls, e) ==
    [l \in ListNames |->
        IF l # "equalizer_switch_entities" /\ e \in Range(ls[l])
        THEN list_remove(ls[l], e)
        ELSE ls[l]]

\* The eight "if self in <list>: <list>.remove(self)" statements.
RemoveFromLists(ls, e) ==
    [l \in ListNames |->
        IF e \in Range(ls[l]) THEN list_remove(ls[l], e) ELSE ls[l]]

\* ent_reg.async_remove(entity_id)
async_remove(registry, entity_id) ==
    SelectSeq(registry, LAMBDA entry : entry.entity_id # entity_id)

\* dev_reg.async_remove_device(device_id): the host drops the device and,
\* with it, the entity entries still registered under it.
async_remove_device(devices, registry, device_id) ==
    [dev_reg |-> devices \ {device_id},
     ent_reg |-> SelectSeq(registry, LAMBDA entry : entry.device_id # device_id)]

\* The registry part without the return after async_remove_device.
RegistryCleanup_NoReturn(e, registry, devices, sites) ==
    LET device_id == DeviceOf(e)
        unchanged == [ent_reg |-> registry, dev_reg |-> devices, calls |-> <<>>]
    IN  IF SiteName(e) \in sites THEN
            IF Len(async_entries_for_device(registry, device_id)) = 1 THEN
                LET r == async_remove_device(devices, registry, device_id)
                IN  [ent_reg |-> async_remove(r.ent_reg, e),
                     dev_reg |-> r.dev_reg,
                     calls |-> <<[call |-> "async_remove_device",
                                  id |-> device_id],
                                 [call |-> "async_remove", id |-> e]>>]
            ELSE
                [ent_reg |-> async_remove(registry, e), dev_reg |-> devices,
                 calls |-> <<[call |-> "async_remove", id |-> e]>>]
        ELSE unchanged

\* The registry part of the handler: the registries after it and the call
\* it issued.
RegistryCleanup(e, registry, devices, sites) ==
    LET device_id == DeviceOf(e)
        unchanged == [ent_reg |-> registry, dev_reg |-> devices, calls |-> <<>>]
    IN  IF SiteName(e) \in sites THEN
            IF Len(async_entries_for_device(registry, device_id)) = 1 THEN
                LET r == async_remove_device(devices, registry, device_id)
                IN  [ent_reg |-> r.ent_reg, dev_reg |-> r.dev_reg,
                     calls |-> <<[call |-> "async_remove_device",
                                  id |-> device_id]>>]
            ELSE
                [ent_reg |-> async_remove(registry, e), dev_reg |-> devices,
                 calls |-> <<[call |-> "async_remove", id |-> e]>>]
        ELSE unchanged

Removed == {removed[i].entity : i \in DOMAIN removed}

NumEntries(ls) ==
    LET RECURSIVE Sum(_)
        Sum(S) == IF S = {} THEN 0
                  ELSE LET l == CHOOSE x \in S : TRUE
                       IN  Len(ls[l]) + Sum(S \ {l})
    IN  Sum(ListNames)

\* List entries the handler has taken out so far.
NumTakenOut ==
    LET RECURSIVE Sum(_)
        Sum(i) == IF i = 0 THEN 0
                  ELSE Cardinality(removed[i].was_in) + Sum(i - 1)
    IN  Sum(Len(removed))

\* A platform adds an entity to one of the controller's lists.
Register(l, e) ==
    /\ e \notin Removed
    /\ NumEntries(lists) + NumTakenOut < MaxEntries
    /\ lists' = [lists EXCEPT ![l] = Append(@, e)]
    /\ UNCHANGED <<ent_reg, dev_reg, sites_to_remove, removed, reg_calls>>
    /\ UNCHANGED <<data, cfg, _state, ret, conditions>>

\* The host removes entity e: async_will_remove_from_hass runs once.
WillRemove(e) ==
    /\ e \notin Removed
    /\ e \in {ent_reg[i].entity_id : i \in DOMAIN ent_reg}
    /\ lists' = RemoveFromLists(lists, e)
    /\ LET r == RegistryCleanup(e, ent_reg, dev_reg, sites_to_remove)
       IN  /\ ent_reg' = r.ent_reg
           /\ dev_reg' = r.dev_reg
           /\ reg_calls' = reg_calls \o r.calls
    /\ removed' = Append(removed,
            [entity |-> e, was_in |-> {l \in ListNames : e \in Range(lists[l])}])
    /\ UNCHANGED sites_to_remove
    /\ UNCHANGED <<data, cfg, _state, ret, conditions>>

InitRemove ==
    /\ lists = [l \in ListNames |-> <<>>]
    /\ ent_reg = [e \in 1 .. Cardinality(Entities) |->
                    [entity_id |-> e, device_id |-> DeviceOf(e),
                     translation_key |-> "None"]]
    /\ dev_reg = Devices
    /\ sites_to_remove \in SUBSET Sites
    /\ removed = <<>>
    /\ reg_calls = <<>>
    /\ conditions = NoConditions
    /\ data = InitialData({})
    /\ cfg = NoConfig
    /\ _state = None
    /\ ret = NoCall

NextRemove ==
    \/ \E l \in ListNames, e \in Entities : Register(l, e)
    \/ \E e \in Entities : WillRemove(e)

SpecRemove == InitRemove /\ [][NextRemove]_vars


---------------------------------------------------------------------------
(* Device conditions over the entity registry *)

\* Registries of up to three entries, any device and translation key each.
Registries ==
    UNION {[1 .. n -> [entity_id : Entities, device_id : Devices,
                       translation_key : TranslationKeys]] : n \in 0 .. 3}

\* The host asks for the conditions of a device.
GetConditions(device_id) ==
    /\ conditions' = [called |-> TRUE, device_id |-> device_id,
                      result |-> async_get_conditions(ent_reg, device_id)]
    /\ UNCHANGED <<lists, ent_reg, dev_reg, sites_to_remove, removed, reg_calls>>
    /\ UNCHANGED <<data, cfg, _state, ret>>

InitCond ==
    /\ ent_reg \in {r \in Registries : \A i \in DOMAIN r : r[i].entity_id = i}
    /\ dev_reg = Devices
    /\ lists = [l \in ListNames |-> <<>>]
    /\ sites_to_remove = {}
    /\ removed = <<>>
    /\ reg_calls = <<>>
    /\ conditions = NoConditions
    /\ data = InitialData({})
    /\ cfg = NoConfig
    /\ _state = None
    /\ ret = NoCall

NextCond == \E device_id \in Devices : GetConditions(device_id)

SpecCond == InitCond /\ [][NextCond]_vars


---------------------------------------------------------------------------
(* Properties of the key-path dispatch (SpecKey) *)

\* The item a two-part key names in data object d (Missing when absent).
ItemAt(d, key) == d[key[1]].items[key[2]]

\* C1: get_value_from_key on a key of a known prefix whose bucket is not
\* None and holds the name with a non-datetime value v returns exactly v,
\* and leaves every bucket of the data object unchanged.
C1_GetReturnsStoredValue ==
    [][(/\ ret'.op = "get"
        /\ ret'.key[1] \in KnownPrefixes
        /\ ~data[ret'.key[1]].isNone
        /\ ItemAt(data, ret'.key) # Missing
        /\ ~isinstance_datetime(ItemAt(data, ret'.key)))
       => (/\ ret'.exc = "none"
           /\ ret'.val = ItemAt(data, ret'.key)
           /\ data' = data)]_vars

C1_Witness ==
    /\ ret.op = "get"
    /\ ret.key[1] = "cost_month"
    /\ ret.exc = "none"
    /\ ret.val = IntVal(1)
    /\ ItemAt(data, ret.key) = IntVal(1)

\* C2: for a two-part key whose prefix is no known bucket name, both
\* get_value_from_key and set_value_from_key raise IndexError, and the data
\* object is left unchanged.
C2_UnknownPrefixRaises ==
    [][(/\ ret'.op \in {"get", "set"}
        /\ ret'.key[1] \notin KnownPrefixes)
       => (/\ ret'.exc = "IndexError"
           /\ data' = data)]_vars

C2_Witness ==
    /\ ret.op = "set"
    /\ ret.key[1] \in UnknownPrefixes
    /\ ret.exc = "IndexError"
    /\ NumItems(data) > 0

\* The prefixes set_value_from_key has a branch for.
SettablePrefixes ==
    {"config", "state", "circuit", "site", "schedule", "weekly_schedule"}

\* After a set through key that returned ret'.val, a get of the same key
\* returns that value (unless it is a datetime).
ReadsBack ==
    /\ ret'.exc = "none"
    /\ ~isinstance_datetime(ret'.val)
        => get_value_from_key(data', ret'.key) = Ok(ret'.val)

\* C3 as stated: for each of the nine prefixes with a non-None bucket,
\* set_value_from_key completes without raising and a following
\* get_value_from_key of the same key returns the value set.
C3_Original ==
    [][(/\ ret'.op = "set"
        /\ ret'.key[1] \in KnownPrefixes
        /\ ~data[ret'.key[1]].isNone)
       => ReadsBack]_vars

\* C3 amended: the round trip holds for the six prefixes set_value_from_key
\* dispatches over; for cost_day, cost_month and cost_year it raises
\* IndexError and leaves the data object unchanged.
C3_SetThenGet ==
    [][ret'.op = "set" =>
        /\ (ret'.key[1] \in SettablePrefixes /\ ~data[ret'.key[1]].isNone)
            => ReadsBack
        /\ ret'.key[1] \in KnownPrefixes \ SettablePrefixes
            => (ret'.exc = "IndexError" /\ data' = data)]_vars

C3_Witness ==
    /\ ret.op = "set"
    /\ ret.key[1] = "weekly_schedule"
    /\ ret.exc = "none"
    /\ ret.val = IntVal(1)
    /\ get_value_from_key(data, ret.key) = Ok(IntVal(1))

\* A get whose lookup cannot yield a stored value.
NothingStored ==
    /\ ret.op = "get"
    /\ ret.key[1] \in KnownPrefixes
    /\ \/ data[ret.key[1]].isNone
       \/ ItemAt(data, ret.key) = Missing

\* C4 as stated: a get on a known prefix that cannot yield a stored value
\* (name absent, or bucket None) raises nothing and returns the empty
\* string; the only exception of a get is IndexError on an unknown prefix.
C4_Original ==
    /\ NothingStored => (ret.exc = "none" /\ ret.val = EmptyStr)
    /\ (ret.op = "get" /\ ret.exc # "none")
        => (ret.exc = "IndexError" /\ ret.key[1] \notin KnownPrefixes)

\* The buckets get_value_from_key tests for None before subscripting.
NoneCheckedOnGet == {"schedule", "weekly_schedule"}

\* C4 amended: a name absent from a bucket that is not None yields the empty
\* string without an exception; a None schedule or weekly_schedule bucket
\* yields None without an exception; a None bucket of the seven other
\* prefixes raises TypeError.  A get raises IndexError (unknown prefix) or
\* TypeError (None bucket) and nothing else.
C4_Degrades ==
    /\ (NothingStored /\ ~data[ret.key[1]].isNone)
        => (ret.exc = "none" /\ ret.val = EmptyStr)
    /\ (NothingStored /\ data[ret.key[1]].isNone
            /\ ret.key[1] \in NoneCheckedOnGet)
        => (ret.exc = "none" /\ ret.val = None)
    /\ (NothingStored /\ data[ret.key[1]].isNone
            /\ ret.key[1] \notin NoneCheckedOnGet)
        => ret.exc = "TypeError"
    /\ (ret.op = "get" /\ ret.exc # "none")
        => \/ ret.exc = "IndexError" /\ ret.key[1] \notin KnownPrefixes
           \/ /\ ret.exc = "TypeError"
              /\ ret.key[1] \in KnownPrefixes \ NoneCheckedOnGet
              /\ data[ret.key[1]].isNone

C4_Witness ==
    /\ NothingStored
    /\ ret.key[1] = "circuit"
    /\ ~data["circuit"].isNone
    /\ ret.val = EmptyStr
    /\ NumItems(data) > 0

---------------------------------------------------------------------------
(* Properties of async_update (SpecUpdate) *)

\* C5: whenever a TypeError, KeyError or AttributeError occurs inside
\* async_update, the call returns normally and _state is None afterwards,
\* whatever the lookup had returned before the error.
C5_ErrorLeavesNone ==
    (ret.op = "update" /\ ret.swallowed # "none")
        => (ret.exc = "none" /\ _state = None)

\* The key of the entity names a bucket that is not None and lacks the name.
KeyMissing ==
    /\ cfg.state_key[1] \in KnownPrefixes
    /\ ~data[cfg.state_key[1]].isNone
    /\ ItemAt(data, cfg.state_key) = Missing

\* The state a freshly constructed entity of the same configuration
\* computes from the data object.
FreshState == async_update(None, cfg, data).state

\* C9 as stated: the state left by async_update is the one a fresh entity
\* would compute from the data at that call; an update that raises
\* IndexError, or whose key is missing, leaves _state None.
C9_Original ==
    ret.op = "update" =>
        /\ _state = FreshState
        /\ ret.exc = "IndexError" => _state = None
        /\ KeyMissing => _state = None

\* C9 amended: the state left by async_update is the one a fresh entity
\* would compute from the data at that call; an update that raises
\* IndexError leaves _state None; an update whose key is missing leaves
\* _state None when no state_func applies to the key and the conversion is
\* absent or a rounding one (otherwise it is what state_func and the
\* conversion make of the data, never the value shown before).
C9_NoCarryOver ==
    ret.op = "update" =>
        /\ _state = FreshState
        /\ ret.exc = "IndexError" => _state = None
        /\ (/\ KeyMissing
            /\ ret.calls = <<>>
            /\ cfg.convert_units_func \in {"None", "round_1_dec"})
            => _state = None

C9_Witness ==
    /\ ret.op = "update"
    /\ ret.prev = IntVal(1)
    /\ data[cfg.state_key[1]].isNone
    /\ ret.swallowed = "TypeError"
    /\ _state = None

\* convert_units_func(value, units), or value when the entity has none.
Converted(value) ==
    IF cfg.convert_units_func = "None" THEN value
    ELSE convert_units_func(cfg.convert_units_func, value, cfg.units).val

\* The looked-up value of the entity's key, '' replaced by None.
LookedUp ==
    LET g == get_value_from_key(data, cfg.state_key)
    IN  IF g.val = EmptyStr THEN None ELSE g.val

\* C10: with a state_func, a non-failing async_update on a key of prefix
\* state, config, schedule or weekly_schedule calls state_func exactly once,
\* on the bucket the prefix names, and leaves the converted result as the
\* state, whatever is stored under the key; on a key of prefix circuit,
\* site, cost_day, cost_month or cost_year state_func is never called and
\* the state is the converted looked-up value ('' replaced by None).
C10_StateFunc ==
    (ret.op = "update" /\ cfg.state_func # "None"
        /\ cfg.state_key[1] \in KnownPrefixes) =>
        LET prefix == cfg.state_key[1]
            nonFailing == ret.exc = "none" /\ ret.swallowed = "none"
        IN  IF prefix \in {"state", "config", "schedule", "weekly_schedule"}
            THEN nonFailing =>
                    /\ ret.calls = <<prefix>>
                    /\ _state =
                        Converted(state_func(cfg.state_func, data[prefix]).val)
            ELSE /\ ret.calls = <<>>
                 /\ nonFailing => _state = Converted(LookedUp)

C10_Witness ==
    /\ ret.op = "update"
    /\ cfg.state_func = "get_is_set"
    /\ cfg.state_key[1] = "weekly_schedule"
    /\ KeyMissing
    /\ ret.swallowed = "none"
    /\ ret.calls = <<"weekly_schedule">>
    /\ _state = Converted(BoolVal(FALSE))
    /\ NumItems(data) > 0

---------------------------------------------------------------------------
(* Properties of async_get_conditions (SpecCond) *)

\* The entries of the device asked for that carry the status sensor's
\* translation key, in registry order.
StatusEntries ==
    SelectSeq(ent_reg,
        LAMBDA entry : /\ entry.device_id = conditions.device_id
                       /\ entry.translation_key = "easee_status")

\* C6: async_get_conditions(device_id) holds, for each entry of the device
\* whose translation_key is 'easee_status', one condition per string of
\* CONDITION_TYPES, in that order, carrying the entry's entity_id, the
\* device_id, condition 'device' and the domain; it holds nothing for other
\* entries, so its length is (number of such entries) x len(CONDITION_TYPES).
C6_Conditions ==
    conditions.called =>
        LET n == Len(CONDITION_TYPES)
            result == conditions.result
        IN  /\ Len(result) = Len(StatusEntries) * n
            /\ \A i \in DOMAIN StatusEntries, j \in 1 .. n :
                    result[(i - 1) * n + j] =
                        [condition |-> "device",
                         device_id |-> conditions.device_id,
                         domain |-> IntegrationDomain,
                         entity_id |-> StatusEntries[i].entity_id,
                         type |-> CONDITION_TYPES[j]]

C6_Witness ==
    /\ conditions.called
    /\ Len(StatusEntries) = 2
    /\ Len(conditions.result) = 2 * Len(CONDITION_TYPES)
    /\ \E i \in DOMAIN ent_reg :
            /\ ent_reg[i].device_id = conditions.device_id
            /\ ent_reg[i].translation_key # "easee_status"

---------------------------------------------------------------------------
(* Properties of async_will_remove_from_hass (SpecRemove) *)

\* Entity e is the one whose handler ran in this step.
HandlerRan(e) ==
    /\ Len(removed') = Len(removed) + 1
    /\ removed'[Len(removed')].entity = e

Occurrences(seq, x) == Cardinality({i \in DOMAIN seq : seq[i] = x})

\* C7: after async_will_remove_from_hass of an entity that occurred at most
\* once per list, the entity is in none of the controller's eight lists and
\* every other entity of those lists is still there, in the same order.
C7_OutOfAllLists ==
    [][\A e \in Entities :
        (HandlerRan(e) /\ \A l \in ListNames : Occurrences(lists[l], e) <= 1)
        => \A l \in ListNames :
            /\ e \notin Range(lists'[l])
            /\ lists'[l] = SelectSeq(lists[l], LAMBDA x : x # e)]_vars

C7_Witness ==
    \E i \in DOMAIN removed :
        /\ Cardinality(removed[i].was_in) >= 2
        /\ \E l \in removed[i].was_in : lists[l] # <<>>
        /\ \A l \in ListNames : removed[i].entity \notin Range(lists[l])

EntitiesOf(device_id) == {e \in Entities : DeviceOf(e) = device_id}

DeviceRemovals(device_id) ==
    Occurrences(reg_calls, [call |-> "async_remove_device", id |-> device_id])

\* C8: the handler touches the registries only when the entity's site is in
\* sites_to_remove.  Then, if the entity is the only registry entry left of
\* its device, the device is removed (and no entity removal is issued);
\* otherwise only the entity is removed from the entity registry and the
\* device stays.  Hence the device of a site to remove is removed exactly
\* once, by the handler of its last entity.
C8_RegistryCleanup ==
    /\ [][\A e \in Entities : HandlerRan(e) =>
            LET d == DeviceOf(e)
                left == {i \in DOMAIN ent_reg : ent_reg[i].device_id = d}
            IN  IF SiteName(e) \notin sites_to_remove
                THEN /\ ent_reg' = ent_reg
                     /\ dev_reg' = dev_reg
                     /\ reg_calls' = reg_calls
                ELSE IF \A i \in left : ent_reg[i].entity_id = e
                THEN /\ dev_reg' = dev_reg \ {d}
                     /\ reg_calls' = Append(reg_calls,
                            [call |-> "async_remove_device", id |-> d])
                ELSE /\ dev_reg' = dev_reg
                     /\ \A x \in Entities :
                            (\E i \in DOMAIN ent_reg' :
                                ent_reg'[i].entity_id = x)
                            <=> (/\ x # e
                                 /\ \E i \in DOMAIN ent_reg :
                                        ent_reg[i].entity_id = x)
                     /\ reg_calls' = Append(reg_calls,
                            [call |-> "async_remove", id |-> e])]_vars
    /\ [](\A d \in Devices :
            LET site == SiteName(CHOOSE e \in EntitiesOf(d) : TRUE)
            IN  /\ DeviceRemovals(d) =
                    (IF site \in sites_to_remove /\ EntitiesOf(d) \subseteq Removed
                     THEN 1 ELSE 0)
                /\ d \in dev_reg <=> DeviceRemovals(d) = 0)

C8_Witness ==
    /\ Len(removed) = 2
    /\ Removed = EntitiesOf(1)
    /\ 1 \notin dev_reg
    /\ \E e \in EntitiesOf(1) :
            reg_calls = <<[call |-> "async_remove", id |-> e],
                          [call |-> "async_remove_device", id |-> 1]>>


=============================================================================
